---- MODULE Spec2Model ----
(***************************************************************************)
(* Model of convertStatement.py: the page/line scanner                     *)
(* extract_transactions_from_bilt_statement, the field extractor           *)
(* parse_transaction_line and the writer save_transactions_to_csv.         *)
(*                                                                         *)
(* A line of text is a sequence of one-character strings, so that the      *)
(* regular expressions, str.strip, str.replace and float() of the source   *)
(* are modelled by what they do to the characters.                         *)
(***************************************************************************)
EXTENDS Integers, Sequences, FiniteSets, TLC

\* pdf                  the pages of the statement, each the list of its lines
\* page_num, i          the page and the line the scan is at (both from 1)
\* transaction_section  the inside-section flag of the current page
\* header_found         set with it at a header line (never read)
\* transactions         the records extracted so far
\* origin               history: <<page_num, i>> of the start line of each record
\* pc                   "scan" while the pages are read, "done" after the save
\* csvfile              the rows of the output file, <<>> while there is none
VARIABLES pdf, page_num, i, transaction_section, header_found,
          transactions, origin, pc, csvfile

vars == <<pdf, page_num, i, transaction_section, header_found,
          transactions, origin, pc, csvfile>>

(***************************************************************************)
(* Bounds of the model                                                     *)
(***************************************************************************)
MaxPages == 2
MaxLines == 3
MaxLongLines == 4
MaxDescTokens == 2

(***************************************************************************)
(* Character classes of Python's re module                                 *)
(***************************************************************************)
Digits == {"0", "1", "2", "3", "4", "5", "6", "7", "8", "9"}

Letters ==
    {"a", "b", "c", "d", "e", "f", "g", "h", "i", "j", "k", "l", "m",
     "n", "o", "p", "q", "r", "s", "t", "u", "v", "w", "x", "y", "z",
     "A", "B", "C", "D", "E", "F", "G", "H", "I", "J", "K", "L", "M",
     "N", "O", "P", "Q", "R", "S", "T", "U", "V", "W", "X", "Y", "Z"}

WordChars == Letters \cup Digits \cup {"_"}

SpaceChars == {" ", "\t"}

DigitsAndCommas == Digits \cup {","}

DigitValue(c) ==
    CASE c = "0" -> 0 [] c = "1" -> 1 [] c = "2" -> 2 [] c = "3" -> 3
      [] c = "4" -> 4 [] c = "5" -> 5 [] c = "6" -> 6 [] c = "7" -> 7
      [] c = "8" -> 8 [] c = "9" -> 9

(***************************************************************************)
(* String primitives                                                       *)
(***************************************************************************)
\* First index j >= k of s whose character is outside S (Len(s)+1 if none):
\* where a greedy  [S]*  that starts at k stops.
Span(s, k, S) ==
    LET out == {j \in k..Len(s) : s[j] \notin S}
    IN  IF out = {} THEN Len(s) + 1
        ELSE CHOOSE j \in out : \A m \in out : j <= m

\* sub in s
Contains(s, sub) ==
    \/ sub = <<>>
    \/ \E k \in 0..(Len(s) - Len(sub)) :
          s[k + 1] = sub[1] /\ SubSeq(s, k + 1, k + Len(sub)) = sub

\* s.strip()
Strip(s) ==
    LET keep == {j \in 1..Len(s) : s[j] \notin SpaceChars}
    IN  IF keep = {} THEN <<>>
        ELSE LET lo == CHOOSE j \in keep : \A m \in keep : j <= m
                 hi == CHOOSE j \in keep : \A m \in keep : j >= m
             IN  SubSeq(s, lo, hi)

\* s.replace(old, '') : every non-overlapping occurrence, left to right
RECURSIVE ReplaceFrom(_, _, _)
ReplaceFrom(s, old, k) ==
    IF k > Len(s) THEN <<>>
    ELSE IF k + Len(old) - 1 <= Len(s) /\ SubSeq(s, k, k + Len(old) - 1) = old
         THEN ReplaceFrom(s, old, k + Len(old))
         ELSE <<s[k]>> \o ReplaceFrom(s, old, k + 1)

Replace(s, old) == ReplaceFrom(s, old, 1)

\* re.match(r'^\d{2}/\d{2}', s) at index k
DateAt(s, k) ==
    /\ k + 4 <= Len(s)
    /\ s[k] \in Digits
    /\ s[k + 1] \in Digits
    /\ s[k + 2] = "/"
    /\ s[k + 3] \in Digits
    /\ s[k + 4] \in Digits

StartsWithDate(s) == DateAt(s, 1)

\* One match of  \$[\d,]+\.?\d*-?  that starts at k: the index after its last
\* character, or 0 when there is no match at k.
AmountEnd(s, k) ==
    IF k > Len(s) \/ s[k] # "$" THEN 0
    ELSE LET a == Span(s, k + 1, DigitsAndCommas)
             b == IF a <= Len(s) /\ s[a] = "." THEN a + 1 ELSE a
             c == Span(s, b, Digits)
             d == IF c <= Len(s) /\ s[c] = "-" THEN c + 1 ELSE c
         IN  IF a = k + 1 THEN 0 ELSE d

\* re.findall(r'\$[\d,]+\.?\d*-?', s) from index k
RECURSIVE FindAllFrom(_, _)
FindAllFrom(s, k) ==
    IF k > Len(s) THEN <<>>
    ELSE LET e == AmountEnd(s, k)
         IN  IF e = 0 THEN FindAllFrom(s, k + 1)
             ELSE <<SubSeq(s, k, e - 1)>> \o FindAllFrom(s, e)

FindAllAmounts(s) == FindAllFrom(s, 1)

(***************************************************************************)
(* Text constants of the source                                            *)
(***************************************************************************)
TransDate ==
    <<"T", "r", "a", "n", "s", " ", "D", "a", "t", "e">>
PostDate ==
    <<"P", "o", "s", "t", " ", "D", "a", "t", "e">>
AmountHdr ==
    <<"A", "m", "o", "u", "n", "t">>
CashAdvances ==
    <<"C", "a", "s", "h", " ", "A", "d", "v", "a", "n", "c", "e", "s">>
FeesCharged ==
    <<"F", "e", "e", "s", " ", "C", "h", "a", "r", "g", "e", "d">>
InterestCharged ==
    <<"I", "n", "t", "e", "r", "e", "s", "t", " ", "C", "h", "a", "r", "g", "e", "d">>
Totals2024 ==
    <<"2", "0", "2", "4", " ", "T", "o", "t", "a", "l", "s">>
BiltProtectSummary ==
    <<"B", "i", "l", "t", "P", "r", "o", "t", "e", "c", "t", " ", "S", "u", "m", "m", "a", "r", "y">>
ContinuedOnNextPage ==
    <<"C", "o", "n", "t", "i", "n", "u", "e", "d", " ", "o", "n", " ", "n", "e", "x", "t", " ", "p", "a", "g", "e">>

\* the list of section breaks, lines 36-37 and 95-96
SectionBreaks ==
    {CashAdvances, FeesCharged, InterestCharged, Totals2024,
     BiltProtectSummary, ContinuedOnNextPage}

\* datetime.now().year, formatted into the dates
current_year == <<"2", "0", "2", "6">>

fieldnames ==
    <<"trans_date", "post_date", "reference_number", "transaction_id",
      "description", "amount">>

\* line 28
IsHeader(line) ==
    Contains(line, TransDate) /\ Contains(line, PostDate) /\ Contains(line, AmountHdr)

\* any(section in line for section in [...]), lines 35 and 94
HasSectionBreak(line) == \E section \in SectionBreaks : Contains(line, section)

(***************************************************************************)
(* parse_transaction_line                                                  *)
(***************************************************************************)
\* re.match of
\*   ^(\d{2}/\d{2})\s+(\d{2}/\d{2})\s+(\w+)\s+(\w+)\s+(.+?)\s+(\$[\d,]+\.?\d*-?)$
\* The first four groups and their separators match in one way only (a
\* shorter \s+ or \w+ leaves a character the next item cannot take).  After
\* group 4 the greedy \s+ gives characters back to the lazy (.+?) only when
\* it must: group 5 starts at the largest b and ends at the smallest e that
\* leave  \s+  and an amount token reaching the end of the line.
MatchTransaction(line) ==
    LET k1 == Span(line, 6, SpaceChars)
        k2 == k1 + 5
        k3 == Span(line, k2, SpaceChars)
        k4 == Span(line, k3, WordChars)
        k5 == Span(line, k4, SpaceChars)
        k6 == Span(line, k5, WordChars)
        k7 == Span(line, k6, SpaceChars)
        head == /\ DateAt(line, 1)
                /\ k1 > 6
                /\ DateAt(line, k1)
                /\ k3 > k2
                /\ k4 > k3
                /\ k5 > k4
                /\ k6 > k5
                /\ k7 > k6
        AmountStart(e) == Span(line, e + 1, SpaceChars)
        Fits(b, e) == /\ AmountStart(e) > e + 1
                      /\ AmountEnd(line, AmountStart(e)) = Len(line) + 1
        starts == {b \in (k6 + 1)..k7 : \E e \in b..Len(line) : Fits(b, e)}
    IN  IF ~head \/ starts = {} THEN <<>>
        ELSE LET b == CHOOSE x \in starts : \A y \in starts : x >= y
                 ends == {e \in b..Len(line) : Fits(b, e)}
                 e == CHOOSE x \in ends : \A y \in ends : x <= y
             IN  <<[g1 |-> SubSeq(line, 1, 5),
                    g2 |-> SubSeq(line, k1, k1 + 4),
                    g3 |-> SubSeq(line, k3, k4 - 1),
                    g4 |-> SubSeq(line, k5, k6 - 1),
                    g5 |-> SubSeq(line, b, e),
                    g6 |-> SubSeq(line, AmountStart(e), Len(line))]>>

\* description = description_and_amount.replace(amount, '').strip(), line 86
RemoveAmount(description_and_amount, amount) ==
    Strip(Replace(description_and_amount, amount))

\* the while loop of lines 90-102: the indices of the lines that
\*   description += " " + continuation
\* is executed for, from next_line_index on
RECURSIVE AppendedLines(_, _)
AppendedLines(all_lines, next_line_index) ==
    IF /\ next_line_index <= Len(all_lines)
       /\ Strip(all_lines[next_line_index]) # <<>>
       /\ ~StartsWithDate(all_lines[next_line_index])
       /\ ~HasSectionBreak(all_lines[next_line_index])
    THEN LET continuation == Strip(all_lines[next_line_index])
         IN  (IF continuation # <<>> /\ ~StartsWithDate(continuation)
              THEN <<next_line_index>> ELSE <<>>)
             \o AppendedLines(all_lines, next_line_index + 1)
    ELSE <<>>

\* the description after the loop
RECURSIVE JoinContinuation(_, _, _)
JoinContinuation(description, all_lines, idx) ==
    IF idx = <<>> THEN description
    ELSE JoinContinuation(description \o <<" ">> \o Strip(all_lines[idx[1]]),
                          all_lines, Tail(idx))

Continuation(all_lines, next_line_index, description) ==
    JoinContinuation(description, all_lines,
                     AppendedLines(all_lines, next_line_index))

\* mutant of CleanAmount: the trailing "-" is dropped, not moved to the front
CleanAmountUnsigned(amount) ==
    LET amount_clean == SelectSeq(SelectSeq(amount, LAMBDA c : c # "$"),
                                  LAMBDA c : c # ",")
    IN  IF amount_clean # <<>> /\ amount_clean[Len(amount_clean)] = "-"
        THEN SubSeq(amount_clean, 1, Len(amount_clean) - 1)
        ELSE amount_clean

\* lines 105-107
CleanAmount(amount) ==
    LET amount_clean == SelectSeq(SelectSeq(amount, LAMBDA c : c # "$"),
                                  LAMBDA c : c # ",")
    IN  IF amount_clean # <<>> /\ amount_clean[Len(amount_clean)] = "-"
        THEN <<"-">> \o SubSeq(amount_clean, 1, Len(amount_clean) - 1)
        ELSE amount_clean

RECURSIVE DigitsToNat(_)
DigitsToNat(ds) ==
    IF ds = <<>> THEN 0
    ELSE 10 * DigitsToNat(SubSeq(ds, 1, Len(ds) - 1)) + DigitValue(ds[Len(ds)])

\* num / 10^scale without trailing zeros in the fraction: equal numbers have
\* equal representations (float("5.0") = float("5"))
RECURSIVE Normalize(_, _)
Normalize(num, scale) ==
    IF scale > 0 /\ num % 10 = 0 THEN Normalize(num \div 10, scale - 1)
    ELSE [num |-> num, scale |-> scale]

\* float(s) for a text of "-", "." and digits: <<>> is ValueError, otherwise
\* the number as a decimal num / 10^scale
ParseFloat(s) ==
    LET neg == s # <<>> /\ s[1] = "-"
        body == IF neg THEN SubSeq(s, 2, Len(s)) ELSE s
        dot == Span(body, 1, Digits)
        int_part == SubSeq(body, 1, dot - 1)
        frac_part == SubSeq(body, dot + 1, Len(body))
        wellformed ==
            /\ dot <= Len(body) => body[dot] = "."
            /\ \A j \in 1..Len(frac_part) : frac_part[j] \in Digits
            /\ Len(int_part) + Len(frac_part) > 0
        magnitude == DigitsToNat(int_part \o frac_part)
    IN  IF ~wellformed THEN <<>>
        ELSE <<Normalize(IF neg THEN 0 - magnitude ELSE magnitude,
                         Len(frac_part))>>

\* line 76
DescriptionAndAmount(m) == m.g5 \o <<" ">> \o m.g6

\* lines 79-83: <<>> when findall finds nothing, else <<amount_matches[-1]>>
LastAmount(description_and_amount) ==
    LET amount_matches == FindAllAmounts(description_and_amount)
    IN  IF amount_matches = <<>> THEN <<>>
        ELSE <<amount_matches[Len(amount_matches)]>>

\* lines 85-128, once the amount token is known
ParseFields(m, amount, all_lines, line_index) ==
    IF ParseFloat(CleanAmount(amount)) = <<>> THEN <<>>
    ELSE <<[trans_date |-> m.g1 \o <<"/">> \o current_year,
            post_date |-> m.g2 \o <<"/">> \o current_year,
            reference_number |-> m.g3,
            transaction_id |-> m.g4,
            description |->
                Strip(Continuation(all_lines, line_index + 1,
                          RemoveAmount(DescriptionAndAmount(m), amount))),
            amount |-> ParseFloat(CleanAmount(amount))[1]]>>

\* lines 72-128, for the match object m
ParseMatch(m, all_lines, line_index) ==
    IF LastAmount(DescriptionAndAmount(m)) = <<>> THEN <<>>
    ELSE ParseFields(m, LastAmount(DescriptionAndAmount(m))[1],
                     all_lines, line_index)

\* <<>> is None, <<t>> is the returned dict t
parse_transaction_line(line, all_lines, line_index) ==
    IF MatchTransaction(line) = <<>> THEN <<>>
    ELSE ParseMatch(MatchTransaction(line)[1], all_lines, line_index)

(***************************************************************************)
(* save_transactions_to_csv                                                *)
(***************************************************************************)
\* one row of csv.DictWriter: the values in the order of fieldnames
Row(t) ==
    <<t.trans_date, t.post_date, t.reference_number, t.transaction_id,
      t.description, t.amount>>

\* mutant of save_transactions_to_csv: no early return for an empty list
SaveAlways(txs, file) ==
    <<fieldnames>> \o [k \in 1..Len(txs) |-> Row(txs[k])]

\* the content of the output file after the call; file is its content
\* before the call
save_transactions_to_csv(txs, file) ==
    IF txs = <<>> THEN file
    ELSE <<fieldnames>> \o [k \in 1..Len(txs) |-> Row(txs[k])]

(***************************************************************************)
(* Inputs: the text lines of the statement's pages                         *)
(***************************************************************************)
SP == <<" ">>

LHeader == TransDate \o SP \o PostDate \o SP \o AmountHdr

FieldPrefix ==
    <<"0", "7", "/", "2", "6", " ", "0", "7", "/", "2", "6", " ", "r", " ", "k">>

LDatedHeader == FieldPrefix \o SP \o LHeader \o SP \o <<"$", "8">>

LHeaderBreak == LHeader \o SP \o FeesCharged

LGood == FieldPrefix \o SP \o <<"A", " ", "$", "5">>

LCredit ==
    <<"0", "7", "/", "2", "7", " ", "0", "7", "/", "2", "7", " ", "s", " ", "m",
      " ", "B", " ", "$", "6", "-">>

LBadShape == <<"0", "7", "/", "2", "8", " ", "m", "e", "m", "o">>

LBadAmount == FieldPrefix \o SP \o <<"A", " ", "$", ",">>

LBreak == CashAdvances

LDatedBreak == FieldPrefix \o SP \o FeesCharged \o SP \o <<"$", "7">>

LContinued == ContinuedOnNextPage

LBreakContinued == CashAdvances \o SP \o ContinuedOnNextPage

LIndented ==
    <<" ", " ", "0", "7", "/", "3", "1", " ", "0", "7", "/", "3", "1", " ",
      "t", " ", "n", " ", "C", " ", "$", "9">>

LCont == <<"D", "C">>

LEmpty == <<>>

SectionLines ==
    {LHeader, LDatedHeader, LHeaderBreak, LGood, LDatedBreak, LContinued,
     LBreakContinued}

RecordLines == {LHeader, LGood, LCredit, LBadShape, LBadAmount, LBreak}

ContinuationLines == {LHeader, LGood, LIndented, LCont, LEmpty, LBreak}

OrderLines == {LHeader, LGood, LCredit, LBreak}

\* tokens of the description and amount tokens of a transaction line
DescTokens ==
    {<<"A">>, <<"$", "5">>, <<"$", "5", "0">>, <<"A", "$", "5", "-">>,
     <<"$", "1", ".", "5", "0">>}

AmountTokens ==
    {<<"$", "5">>, <<"$", "5", "-">>, <<"$", "1", ",", "2", "3", "4", ".", "5", "0">>,
     <<"$", "1", ".", "5", "0">>, <<"$", "2", "0", ".", "0", "0", "-">>,
     <<"$", "0", "-">>, <<"$", "7", ".">>, <<"$", ",">>, <<"$", ",", "-">>}

RECURSIVE Join(_)
Join(tokens) ==
    IF tokens = <<>> THEN <<>>
    ELSE IF Len(tokens) = 1 THEN tokens[1]
    ELSE tokens[1] \o SP \o Join(Tail(tokens))

TransactionLines ==
    {FieldPrefix \o SP \o Join(d) \o SP \o a :
        d \in UNION {[1..n -> DescTokens] : n \in 1..MaxDescTokens},
        a \in AmountTokens}

\* the lines of page p when the flat line sequence f is cut into pages by the
\* nondecreasing page assignment pg
PageLines(f, pg, p) ==
    LET idx == {j \in 1..Len(f) : pg[j] = p}
    IN  IF idx = {} THEN <<>>
        ELSE SubSeq(f, CHOOSE j \in idx : \A m \in idx : j <= m,
                       CHOOSE j \in idx : \A m \in idx : j >= m)

\* the ways to cut n lines into np pages: the page of each line
Cuts(n, np) ==
    {pg \in [1..n -> 1..np] : \A a, b \in 1..n : a < b => pg[a] <= pg[b]}

\* pdf.pages as the list of page_text.split('\n'): f cut into np pages by pg;
\* an empty page is a page without text
Document(f, pg, np) == [p \in 1..np |-> PageLines(f, pg, p)]

NoFile == <<>>

OldFile == << <<"stale">> >>

(***************************************************************************)
(* extract_transactions_from_bilt_statement                                *)
(***************************************************************************)
InitScan(Pool, max_lines, Files) ==
    /\ \E n \in 0..max_lines, np \in 0..MaxPages :
          /\ np > 0 \/ n = 0
          /\ \E f \in [1..n -> Pool], pg \in Cuts(n, np) :
                pdf = Document(f, pg, np)
    /\ page_num = 0
    /\ i = 0
    /\ transaction_section = FALSE
    /\ header_found = FALSE
    /\ transactions = <<>>
    /\ origin = <<>>
    /\ pc = "scan"
    /\ csvfile \in Files

Init == InitScan(RecordLines, MaxLines, {NoFile, OldFile})

InitSection == InitScan(SectionLines, MaxLines, {NoFile})

InitOrder == InitScan(OrderLines, MaxLongLines, {NoFile})

InitContinuation == InitScan(ContinuationLines, MaxLongLines, {NoFile})

InitParse ==
    /\ pdf \in {<< <<LHeader, l>> >> : l \in TransactionLines}
    /\ page_num = 0
    /\ i = 0
    /\ transaction_section = FALSE
    /\ header_found = FALSE
    /\ transactions = <<>>
    /\ origin = <<>>
    /\ pc = "scan"
    /\ csvfile = NoFile

\* the page loop is between pages: before the first page or after the last
\* line of the current one
PageDone == IF page_num = 0 THEN TRUE ELSE i > Len(pdf[page_num])

\* lines 13-16: a page without text is skipped
SkipEmptyPage ==
    /\ pc = "scan"
    /\ PageDone
    /\ page_num < Len(pdf)
    /\ pdf[page_num + 1] = <<>>
    /\ page_num' = page_num + 1
    /\ i' = 1
    /\ UNCHANGED <<pdf, transaction_section, header_found, transactions,
                   origin, pc, csvfile>>

\* lines 13-22: the next page with text; its flags start False
BeginPage ==
    /\ pc = "scan"
    /\ PageDone
    /\ page_num < Len(pdf)
    /\ pdf[page_num + 1] # <<>>
    /\ page_num' = page_num + 1
    /\ i' = 1
    /\ transaction_section' = FALSE
    /\ header_found' = FALSE
    /\ UNCHANGED <<pdf, transactions, origin, pc, csvfile>>

InPage == pc = "scan" /\ page_num >= 1 /\ i \in 1..Len(pdf[page_num])

\* line 25
CurrentLine == Strip(pdf[page_num][i])

\* lines 28-32
HeaderLine ==
    /\ InPage
    /\ IsHeader(CurrentLine)
    /\ transaction_section' = TRUE
    /\ header_found' = TRUE
    /\ i' = i + 1
    /\ UNCHANGED <<pdf, page_num, transactions, origin, pc, csvfile>>

\* mutant of SectionBreakLine: a marker line never clears the flag
SectionBreakLineKeepsSection ==
    /\ InPage
    /\ ~IsHeader(CurrentLine)
    /\ transaction_section /\ HasSectionBreak(CurrentLine)
    /\ i' = i + 1
    /\ UNCHANGED <<pdf, page_num, transaction_section, header_found,
                   transactions, origin, pc, csvfile>>

\* lines 35-41
SectionBreakLine ==
    /\ InPage
    /\ ~IsHeader(CurrentLine)
    /\ transaction_section /\ HasSectionBreak(CurrentLine)
    /\ transaction_section' =
          IF ~Contains(CurrentLine, ContinuedOnNextPage) THEN FALSE
          ELSE transaction_section
    /\ i' = i + 1
    /\ UNCHANGED <<pdf, page_num, header_found, transactions, origin, pc, csvfile>>

\* mutant of TransactionLine: extraction is not gated by the section flag
TransactionLineUngated ==
    /\ InPage
    /\ ~IsHeader(CurrentLine)
    /\ ~(transaction_section /\ HasSectionBreak(CurrentLine))
    /\ CurrentLine # <<>>
    /\ StartsWithDate(CurrentLine)
    /\ LET transaction == parse_transaction_line(CurrentLine, pdf[page_num], i)
       IN  IF transaction # <<>>
           THEN /\ transactions' = Append(transactions, transaction[1])
                /\ origin' = Append(origin, <<page_num, i>>)
           ELSE UNCHANGED <<transactions, origin>>
    /\ i' = i + 1
    /\ UNCHANGED <<pdf, page_num, transaction_section, header_found, pc, csvfile>>

\* mutant of TransactionLine: a new record goes to the front of the list
TransactionLinePrepend ==
    /\ InPage
    /\ ~IsHeader(CurrentLine)
    /\ ~(transaction_section /\ HasSectionBreak(CurrentLine))
    /\ transaction_section /\ CurrentLine # <<>>
    /\ StartsWithDate(CurrentLine)
    /\ LET transaction == parse_transaction_line(CurrentLine, pdf[page_num], i)
       IN  IF transaction # <<>>
           THEN /\ transactions' = <<transaction[1]>> \o transactions
                /\ origin' = <<<<page_num, i>>>> \o origin
           ELSE UNCHANGED <<transactions, origin>>
    /\ i' = i + 1
    /\ UNCHANGED <<pdf, page_num, transaction_section, header_found, pc, csvfile>>

\* mutant of TransactionLine: a line that gives no record ends the section
TransactionLineAbort ==
    /\ InPage
    /\ ~IsHeader(CurrentLine)
    /\ ~(transaction_section /\ HasSectionBreak(CurrentLine))
    /\ transaction_section /\ CurrentLine # <<>>
    /\ StartsWithDate(CurrentLine)
    /\ LET transaction == parse_transaction_line(CurrentLine, pdf[page_num], i)
       IN  IF transaction # <<>>
           THEN /\ transactions' = Append(transactions, transaction[1])
                /\ origin' = Append(origin, <<page_num, i>>)
                /\ UNCHANGED transaction_section
           ELSE /\ transaction_section' = FALSE
                /\ UNCHANGED <<transactions, origin>>
    /\ i' = i + 1
    /\ UNCHANGED <<pdf, page_num, header_found, pc, csvfile>>

\* lines 44-50
TransactionLine ==
    /\ InPage
    /\ ~IsHeader(CurrentLine)
    /\ ~(transaction_section /\ HasSectionBreak(CurrentLine))
    /\ transaction_section /\ CurrentLine # <<>>
    /\ StartsWithDate(CurrentLine)
    /\ LET transaction == parse_transaction_line(CurrentLine, pdf[page_num], i)
       IN  IF transaction # <<>>
           THEN /\ transactions' = Append(transactions, transaction[1])
                /\ origin' = Append(origin, <<page_num, i>>)
           ELSE UNCHANGED <<transactions, origin>>
    /\ i' = i + 1
    /\ UNCHANGED <<pdf, page_num, transaction_section, header_found, pc, csvfile>>

\* lines 24-46: a line that meets none of the conditions
OtherLine ==
    /\ InPage
    /\ ~IsHeader(CurrentLine)
    /\ ~(transaction_section /\ HasSectionBreak(CurrentLine))
    /\ ~(transaction_section /\ CurrentLine # <<>> /\ StartsWithDate(CurrentLine))
    /\ i' = i + 1
    /\ UNCHANGED <<pdf, page_num, transaction_section, header_found,
                   transactions, origin, pc, csvfile>>

\* lines 52-59
Save ==
    /\ pc = "scan"
    /\ PageDone
    /\ page_num = Len(pdf)
    /\ csvfile' = save_transactions_to_csv(transactions, csvfile)
    /\ pc' = "done"
    /\ UNCHANGED <<pdf, page_num, i, transaction_section, header_found,
                   transactions, origin>>

Next ==
    \/ SkipEmptyPage
    \/ BeginPage
    \/ HeaderLine
    \/ SectionBreakLine
    \/ TransactionLine
    \/ OtherLine
    \/ Save

NextParse ==
    \/ BeginPage
    \/ HeaderLine
    \/ TransactionLine
    \/ Save

Spec == Init /\ [][Next]_vars

SpecSection == InitSection /\ [][Next]_vars

SpecOrder == InitOrder /\ [][Next]_vars

SpecContinuation == InitContinuation /\ [][Next]_vars

SpecParse == InitParse /\ [][NextParse]_vars

(***************************************************************************)
(* Vocabulary of the properties                                            *)
(***************************************************************************)
\* the five markers that end a section
EndMarkers ==
    {CashAdvances, FeesCharged, InterestCharged, Totals2024, BiltProtectSummary}

HasEndMarker(line) == \E marker \in EndMarkers : Contains(line, marker)

\* a marker line that is not a "Continued on next page" line
EndsSection(line) ==
    HasEndMarker(line) /\ ~Contains(line, ContinuedOnNextPage)

\* <<page, line index>> of every line of the document, and document order
Positions ==
    UNION {{<<p, n>> : n \in 1..Len(pdf[p])} : p \in 1..Len(pdf)}

Before(a, b) == a[1] < b[1] \/ (a[1] = b[1] /\ a[2] < b[2])

\* the line at a position, as the scanner sees it (trimmed)
LineAt(pos) == Strip(pdf[pos[1]][pos[2]])

\* the positions of the start lines that produced a record
Extracted == {origin[k] : k \in 1..Len(origin)}

\* some header line precedes pos with no line satisfying IsEnd in between
FollowsHeader(pos, IsEnd(_)) ==
    \E h \in Positions :
        /\ Before(h, pos)
        /\ IsHeader(LineAt(h))
        /\ \A m \in Positions :
              Before(h, m) /\ Before(m, pos) => ~IsEnd(LineAt(m))

\* every line before pos satisfying IsEnd is followed by a header line before pos
HeaderSinceEnd(pos, IsEnd(_)) ==
    \A m \in Positions :
        Before(m, pos) /\ IsEnd(LineAt(m)) =>
            \E h \in Positions :
                Before(m, h) /\ Before(h, pos) /\ IsHeader(LineAt(h))

\* C1 as stated: every emitted record comes from a date-prefixed line that
\* is not a header line and follows a header line with no line containing
\* one of the five section-end markers in between.
C1_RecordsFollowHeader ==
    \A pos \in Extracted :
        /\ StartsWithDate(LineAt(pos))
        /\ ~IsHeader(LineAt(pos))
        /\ FollowsHeader(pos, HasEndMarker)

\* C1 amended: every emitted record comes from a date-prefixed line that is
\* not a header line and follows a header line with no line in between that
\* contains one of the five markers without "Continued on next page".
C1_RecordsFollowOpenHeader ==
    \A pos \in Extracted :
        /\ StartsWithDate(LineAt(pos))
        /\ ~IsHeader(LineAt(pos))
        /\ FollowsHeader(pos, EndsSection)

\* a record was extracted right after a date-prefixed header line, and the
\* header line itself gave no record
C1_Witness ==
    \E pos \in Extracted :
        /\ pos[2] >= 2
        /\ IsHeader(LineAt(<<pos[1], pos[2] - 1>>))
        /\ StartsWithDate(LineAt(<<pos[1], pos[2] - 1>>))
        /\ <<pos[1], pos[2] - 1>> \notin Extracted

\* C2: the inside-section state is not reset at the page boundary: when a
\* page ends inside the section on a "Continued on next page" line, the
\* scanner is still inside the section when the next page starts.
C2_SectionSurvivesPageBreak ==
    [][(/\ pc = "scan"
        /\ page_num >= 1
        /\ page_num' = page_num + 1
        /\ transaction_section
        /\ Len(pdf[page_num]) >= 1
        /\ Contains(LineAt(<<page_num, Len(pdf[page_num])>>), ContinuedOnNextPage))
       => transaction_section']_vars

\* C3 as stated: inside the section, a line containing any of the five
\* markers moves the scanner outside and gives no record, and no record
\* comes from a line between such a marker line and the next header line.
C3_MarkerEndsSection ==
    [][/\ (InPage /\ transaction_section /\ HasEndMarker(CurrentLine))
            => (~transaction_section' /\ origin' = origin)
       /\ origin' # origin => HeaderSinceEnd(<<page_num, i>>, HasEndMarker)]_vars

\* a marker line that ends the section: not itself a header line and without
\* "Continued on next page"
ClosesSection(line) == EndsSection(line) /\ ~IsHeader(line)

\* C3 amended: inside the section, a line that is not a header line,
\* contains one of the five markers and does not contain "Continued on next
\* page" moves the scanner outside and gives no record (date-prefixed or
\* not), and no record comes from a line between such a line and the next
\* header line.
C3_ClosingMarkerEndsSection ==
    [][/\ (InPage /\ transaction_section /\ ClosesSection(CurrentLine))
            => (~transaction_section' /\ origin' = origin)
       /\ origin' # origin => HeaderSinceEnd(<<page_num, i>>, ClosesSection)]_vars

\* the scan is over; a header line was followed by a date-prefixed marker
\* line and then by a transaction line, and neither gave a record
C3_Witness ==
    /\ pc = "done"
    /\ \E pos \in Positions :
          /\ pos[2] >= 3
          /\ IsHeader(LineAt(<<pos[1], pos[2] - 2>>))
          /\ ClosesSection(LineAt(<<pos[1], pos[2] - 1>>))
          /\ StartsWithDate(LineAt(<<pos[1], pos[2] - 1>>))
          /\ pdf[pos[1]][pos[2]] = LGood
          /\ <<pos[1], pos[2] - 1>> \notin Extracted
          /\ pos \notin Extracted

\* C4: the records are in source order: record k is the one parsed from
\* the k-th extracted start line, and the start lines of the records are
\* strictly increasing in document order (so no start line gives two).
C4_SourceOrder ==
    /\ Len(transactions) = Len(origin)
    /\ \A k \in 1..Len(origin) :
          <<transactions[k]>> =
              parse_transaction_line(LineAt(origin[k]), pdf[origin[k][1]],
                                     origin[k][2])
    /\ \A a, b \in 1..Len(origin) : a < b => Before(origin[a], origin[b])

\* two different records were extracted, from start lines on different pages
C4_Witness ==
    /\ pc = "done"
    /\ Len(transactions) >= 2
    /\ transactions[1] # transactions[2]
    /\ origin[1][1] < origin[2][1]

\* the text of s after its first n blank-separated fields
RECURSIVE DropFields(_, _)
DropFields(s, n) ==
    LET t == Strip(s)
        blanks == {j \in 1..Len(t) : t[j] \in SpaceChars}
    IN  IF n = 0 THEN t
        ELSE IF blanks = {} THEN <<>>
        ELSE DropFields(SubSeq(t, CHOOSE j \in blanks : \A m \in blanks : j <= m,
                               Len(t)), n - 1)

\* where the last blank-separated token of s starts
LastTokenStart(s) ==
    LET blanks == {j \in 1..Len(s) : s[j] \in SpaceChars}
    IN  IF blanks = {} THEN 1
        ELSE 1 + CHOOSE j \in blanks : \A m \in blanks : j >= m

LastToken(s) == SubSeq(s, LastTokenStart(s), Len(s))

\* the description+amount tail of a transaction line without its last token
TailBeforeAmount(line) ==
    Strip(SubSeq(DropFields(line, 4), 1, LastTokenStart(DropFields(line, 4)) - 1))

\* C5: the description of a record (of a start line without continuation
\* lines) is the description+amount tail of the line with only its last
\* amount token removed, trimmed; all other text of the tail is kept.
C5_OnlyLastAmountRemoved ==
    \A k \in 1..Len(origin) :
        transactions[k].description = TailBeforeAmount(LineAt(origin[k]))

RECURSIVE Pow10(_)
Pow10(n) == IF n = 0 THEN 1 ELSE 10 * Pow10(n - 1)

\* the number of digits of an amount token after its decimal point
FractionDigits(token) ==
    LET dots == {j \in 1..Len(token) : token[j] = "."}
    IN  IF dots = {} THEN 0
        ELSE Len(SelectSeq(SubSeq(token, 1 + CHOOSE j \in dots : TRUE, Len(token)),
                           LAMBDA c : c \in Digits))

\* the digits of an amount token read as one natural number
TokenDigits(token) == DigitsToNat(SelectSeq(token, LAMBDA c : c \in Digits))

EndsInMinus(token) == token # <<>> /\ token[Len(token)] = "-"

\* C6: the record's amount is the number written by the digits of the
\* amount token (the last token of the line), "$" and "," dropped, negated
\* exactly when the token ends in "-"; without a trailing "-" it is never
\* negative.
C6_AmountValue ==
    \A k \in 1..Len(origin) :
        LET token == LastToken(LineAt(origin[k]))
            amount == transactions[k].amount
        IN  /\ amount.num * Pow10(FractionDigits(token)) =
                  (IF EndsInMinus(token) THEN 0 - TokenDigits(token)
                   ELSE TokenDigits(token)) * Pow10(amount.scale)
            /\ ~EndsInMinus(token) => amount.num >= 0

\* the token "$20.00-" gave the amount -20
C6_Witness ==
    \E k \in 1..Len(origin) :
        /\ LastToken(LineAt(origin[k])) = <<"$", "2", "0", ".", "0", "0", "-">>
        /\ transactions[k].amount = [num |-> 0 - 20, scale |-> 0]

\* a start line that parse_transaction_line gives nothing for: it does not
\* match the five-field shape, or its amount token has no digit to parse
Unparseable(line) ==
    \/ MatchTransaction(line) = <<>>
    \/ \A j \in 1..Len(LastToken(line)) : LastToken(line)[j] \notin Digits

\* the scanner is inside the section at a date-prefixed line that is
\* neither a header nor a marker line
AtStartLine ==
    /\ InPage
    /\ transaction_section
    /\ ~IsHeader(CurrentLine)
    /\ ~HasSectionBreak(CurrentLine)
    /\ StartsWithDate(CurrentLine)

\* C7: at a start line inside the section that cannot be parsed, the record
\* list and the inside-section flag stay as they are and the scan moves to
\* the next line; a start line inside the section that can be parsed gives
\* a record, whatever failed before it.
C7_FailureIsLocal ==
    [][/\ (AtStartLine /\ Unparseable(CurrentLine))
            => /\ transactions' = transactions
               /\ transaction_section' = transaction_section
               /\ pc' = "scan" /\ page_num' = page_num /\ i' = i + 1
       /\ (AtStartLine /\ ~Unparseable(CurrentLine))
            => /\ Len(transactions') = Len(transactions) + 1
               /\ origin' = Append(origin, <<page_num, i>>)]_vars

\* a record was extracted from the line right after a start line whose
\* amount token "$," failed to parse and that gave no record
C7_Witness ==
    \E pos \in Extracted :
        /\ pos[2] >= 2
        /\ pdf[pos[1]][pos[2] - 1] = LBadAmount
        /\ MatchTransaction(LBadAmount) # <<>>
        /\ <<pos[1], pos[2] - 1>> \notin Extracted

\* row is the csv row of record t
IsRowOf(row, t) ==
    /\ Len(row) = Len(fieldnames)
    /\ row[1] = t.trans_date
    /\ row[2] = t.post_date
    /\ row[3] = t.reference_number
    /\ row[4] = t.transaction_id
    /\ row[5] = t.description
    /\ row[6] = t.amount

\* C8: the output file is written only by the save at the end of the scan,
\* and only when there are records: with none the file stays as it was
\* (absent or with its old content), otherwise it holds the header row and
\* then one row per record in sequence order.
C8_WrittenIffRecords ==
    [][/\ pc' = "scan" => csvfile' = csvfile
       /\ (pc = "scan" /\ pc' = "done") =>
            IF transactions = <<>> THEN csvfile' = csvfile
            ELSE /\ Len(csvfile') = Len(transactions) + 1
                 /\ csvfile'[1] = fieldnames
                 /\ \A k \in 1..Len(transactions) :
                       IsRowOf(csvfile'[k + 1], transactions[k])]_vars

\* two records were saved: the file has the header row and two rows
C8_Witness ==
    /\ pc = "done"
    /\ Len(transactions) = 2
    /\ Len(csvfile) = 3
    /\ csvfile[1] = fieldnames

\* a continuation line: not empty, not starting with a date, without marker
IsContinuationLine(l) ==
    Strip(l) # <<>> /\ ~StartsWithDate(Strip(l)) /\ ~HasSectionBreak(l)

\* description joined with the maximal run of continuation lines from j on
RECURSIVE WithRun(_, _, _)
WithRun(description, page, j) ==
    IF j <= Len(page) /\ IsContinuationLine(page[j])
    THEN WithRun(description \o <<" ">> \o Strip(page[j]), page, j + 1)
    ELSE description

\* C9: a record's description is the description of its start line joined
\* with exactly the maximal run of continuation lines directly after it;
\* nothing at or after the first line that is not one is appended.
C9_ContinuationIsMaximalRun ==
    \A k \in 1..Len(origin) :
        transactions[k].description =
            WithRun(TailBeforeAmount(LineAt(origin[k])),
                    pdf[origin[k][1]], origin[k][2] + 1)

\* the lines appended to the description of the record of start line pos
AppendedTo(pos) ==
    {<<pos[1], AppendedLines(pdf[pos[1]], pos[2] + 1)[j]>> :
        j \in 1..Len(AppendedLines(pdf[pos[1]], pos[2] + 1))}

\* C10: no source line is appended to the descriptions of two different
\* records.
C10_LineInOneRecord ==
    \A a, b \in Extracted : a # b => AppendedTo(a) \cap AppendedTo(b) = {}
====
